---- MODULE Spec2Model ----
(***************************************************************************)
(* ESP3 packet codec of maugier/enocean (src/packet.rs).                   *)
(*                                                                         *)
(* The codec is a set of pure functions over an already-framed input       *)
(* (packet_type, data, optional_data).  Each function is an operator       *)
(* computed the way the code computes it, including the places where the   *)
(* code indexes or slices without a length check (a Rust panic).  The      *)
(* state machine applies the functions to frames drawn from bounded sets.  *)
(***************************************************************************)
EXTENDS Integers, Sequences, FiniteSets, TLC

(***************************************************************************)
(* Bounds of the model.                                                    *)
(***************************************************************************)
\* longest data segment of the exhaustively enumerated frames
MaxData == 7
\* longest optional segment of the exhaustively enumerated frames
MaxOpt == 7
\* longest freely chosen head of the 16-byte description field
MaxHead == 3
\* width of usize in the model; real targets have 32 or 64, every width
\* above 3 bits gives the same outcomes for the lengths modelled here
UsizeBits == 16

(***************************************************************************)
(* Results: Ok(v), Err(e), or a panic (unwinding; no value is returned).   *)
(***************************************************************************)
Ok(v) == [kind |-> "Ok", val |-> v]
Err(e) == [kind |-> "Err", err |-> e]
Panic(why) == [kind |-> "Panic", why |-> why]
NoResult == [kind |-> "NoResult"]

\* ParseError
UnsupportedPacketType == [name |-> "UnsupportedPacketType"]
PacketTooShort == [name |-> "PacketTooShort"]
UTF8 == [name |-> "UTF8"]
InvalidResultCode(b) == [name |-> "InvalidResultCode", byte |-> b]
InvalidPrimitive == [name |-> "InvalidPrimitive"]

\* Option<T>
None == [some |-> FALSE]
Some(v) == [some |-> TRUE, v |-> v]

(***************************************************************************)
(* Collaborators outside src/packet.rs.                                    *)
(***************************************************************************)
\* crate::frame::ESP3Frame::assemble: the frame seen as its three parts
ESP3Frame_assemble(packet_type, data, optional) ==
  [packet_type |-> packet_type, data |-> data, optional_data |-> optional]

\* crate::enocean::Rorg: the telegram-type codes (EnOcean RORG values)
RorgCodes == {48, 49, 165, 166, 167, 197, 198, 199, 209, 210, 212, 213, 246}

\* crate::enocean::ReturnCode: the ESP3 return codes
ReturnCodes == {0, 1, 2, 3, 4}

Rorg_try_from_primitive(b) ==
  IF b \in RorgCodes THEN Ok([rorg |-> b]) ELSE Err(b)

ReturnCode_try_from_primitive(b) ==
  IF b \in ReturnCodes THEN Ok([return_code |-> b]) ELSE Err(b)

(***************************************************************************)
(* Enumerated primitives of packet.rs (num_enum TryFromPrimitive).         *)
(***************************************************************************)
\* mutant: an unknown byte falls back to a default variant
SubtelNum_try_from_primitive_coerce(b) ==
  CASE b = 3 -> Ok("Send")
    [] OTHER -> Ok("Receive")

SubtelNum_try_from_primitive(b) ==
  CASE b = 3 -> Ok("Send")
    [] b = 0 -> Ok("Receive")
    [] OTHER -> Err(b)

Security_try_from_primitive(b) ==
  CASE b = 0 -> Ok("None")
    [] b = 1 -> Ok("Obsolete")
    [] b = 2 -> Ok("Decrypted")
    [] b = 3 -> Ok("Authenticated")
    [] b = 4 -> Ok("AuthAndDecrypted")
    [] OTHER -> Err(b)

\* IntoPrimitive: the discriminant of a variant
SubtelNum_into(v) == CASE v = "Send" -> 3 [] v = "Receive" -> 0

Security_into(v) ==
  CASE v = "None" -> 0
    [] v = "Obsolete" -> 1
    [] v = "Decrypted" -> 2
    [] v = "Authenticated" -> 3
    [] v = "AuthAndDecrypted" -> 4

Address(bytes) == [address |-> bytes]

(***************************************************************************)
(* Slices.  s[a..b] of a Rust slice is SubSeq(s, a+1, b).                  *)
(***************************************************************************)
Slice(s, a, b) == SubSeq(s, a + 1, b)

\* usize subtraction in a build without overflow checks
wrapping_sub(a, b) == (a - b) % (2 ^ UsizeBits)

(***************************************************************************)
(* std::str::from_utf8: the well-formed UTF-8 byte sequences.              *)
(***************************************************************************)
IsCont(s, i) == i <= Len(s) /\ s[i] >= 128 /\ s[i] <= 191

InRange(s, i, lo, hi) == i <= Len(s) /\ s[i] >= lo /\ s[i] <= hi

RECURSIVE utf8_valid_from(_, _)
utf8_valid_from(s, i) ==
  IF i > Len(s) THEN TRUE
  ELSE LET b == s[i] IN
    CASE b < 128 -> utf8_valid_from(s, i + 1)
      [] b >= 194 /\ b <= 223 -> IsCont(s, i + 1) /\ utf8_valid_from(s, i + 2)
      [] b = 224 ->
           InRange(s, i + 1, 160, 191) /\ IsCont(s, i + 2)
           /\ utf8_valid_from(s, i + 3)
      [] (b >= 225 /\ b <= 236) \/ b = 238 \/ b = 239 ->
           IsCont(s, i + 1) /\ IsCont(s, i + 2) /\ utf8_valid_from(s, i + 3)
      [] b = 237 ->
           InRange(s, i + 1, 128, 159) /\ IsCont(s, i + 2)
           /\ utf8_valid_from(s, i + 3)
      [] b = 240 ->
           InRange(s, i + 1, 144, 191) /\ IsCont(s, i + 2) /\ IsCont(s, i + 3)
           /\ utf8_valid_from(s, i + 4)
      [] b >= 241 /\ b <= 243 ->
           IsCont(s, i + 1) /\ IsCont(s, i + 2) /\ IsCont(s, i + 3)
           /\ utf8_valid_from(s, i + 4)
      [] b = 244 ->
           InRange(s, i + 1, 128, 143) /\ IsCont(s, i + 2) /\ IsCont(s, i + 3)
           /\ utf8_valid_from(s, i + 4)
      [] OTHER -> FALSE

\* a String is held as its UTF-8 bytes
from_utf8(s) == IF utf8_valid_from(s, 1) THEN Ok(s) ELSE Err(UTF8)

(***************************************************************************)
(* VersionResponse::decode                                                 *)
(***************************************************************************)
\* the while loop of fromcstr: idx advances while s[idx] == 0
RECURSIVE fromcstr_idx(_, _)
fromcstr_idx(s, idx) ==
  IF idx < Len(s) /\ s[idx + 1] = 0 THEN fromcstr_idx(s, idx + 1) ELSE idx

fromcstr(s) == from_utf8(Slice(s, 0, fromcstr_idx(s, 0)))

Version(d, at) ==
  [main |-> d[at + 1], beta |-> d[at + 2], alpha |-> d[at + 3],
   build |-> d[at + 4]]

VersionResponse_decode(response) ==
  LET d == response.data IN
  IF Len(d) # 32 THEN Err(PacketTooShort)
  ELSE LET description == fromcstr(Slice(d, 16, 32)) IN
       IF description.kind = "Err" THEN Err(UTF8)
       ELSE Ok([app |-> Version(d, 0),
                api |-> Version(d, 4),
                chip_id |-> Address(Slice(d, 8, 12)),
                chip_version |-> Slice(d, 12, 16),
                description |-> description.val])

(***************************************************************************)
(* RadioErp1::decode.  The fields of the struct literal are evaluated in   *)
(* the order written; the first panic or `?` ends the call.                *)
(***************************************************************************)
\* frame.data.len() - 6: panics when overflow checks are compiled in,
\* wraps otherwise
decode_payload_len(data, overflow_checks) ==
  IF Len(data) >= 6 THEN Ok(Len(data) - 6)
  ELSE IF overflow_checks THEN Panic("attempt to subtract with overflow")
  ELSE Ok(wrapping_sub(Len(data), 6))

decode_choice(data) ==
  IF Len(data) = 0 THEN Panic("index out of bounds")
  ELSE LET r == Rorg_try_from_primitive(data[1]) IN
       IF r.kind = "Err" THEN Err(UnsupportedPacketType) ELSE r

\* &frame.data[1..][..payload_len]
decode_user_data(data, payload_len) ==
  IF 1 > Len(data) THEN Panic("range start index out of range")
  ELSE IF payload_len > Len(data) - 1 THEN Panic("range end index out of range")
  ELSE Ok(Slice(data, 1, 1 + payload_len))

\* mutant: the sender address taken one byte early
decode_sender_id_early(data, payload_len) ==
  Ok(Address(Slice(data, payload_len, payload_len + 4)))

\* Address(frame.data[1+payload_len..][..4].try_into().unwrap())
decode_sender_id(data, payload_len) ==
  IF 1 + payload_len > Len(data) THEN Panic("range start index out of range")
  ELSE IF 4 > Len(data) - (1 + payload_len)
       THEN Panic("range end index out of range")
  ELSE Ok(Address(Slice(data, 1 + payload_len, 1 + payload_len + 4)))

\* frame.data[5+payload_len]
decode_status(data, payload_len) ==
  IF 5 + payload_len >= Len(data) THEN Panic("index out of bounds")
  ELSE Ok(data[5 + payload_len + 1])

decode_subtel_num(optional_data) ==
  IF Len(optional_data) >= 1
  THEN LET r == SubtelNum_try_from_primitive(optional_data[1]) IN
       IF r.kind = "Err" THEN Err(InvalidPrimitive) ELSE Ok(Some(r.val))
  ELSE Ok(None)

\* mutant: the destination threshold off by one
decode_destination_late(optional_data) ==
  IF Len(optional_data) >= 6
  THEN Ok(Some(Address(Slice(optional_data, 1, 5))))
  ELSE Ok(None)

decode_destination(optional_data) ==
  IF Len(optional_data) >= 5
  THEN Ok(Some(Address(Slice(optional_data, 1, 5))))
  ELSE Ok(None)

decode_rssi(optional_data) ==
  IF Len(optional_data) >= 6 THEN Ok(Some(optional_data[6])) ELSE Ok(None)

decode_security(optional_data) ==
  IF Len(optional_data) >= 7
  THEN LET r == Security_try_from_primitive(optional_data[7]) IN
       IF r.kind = "Err" THEN Err(InvalidPrimitive) ELSE Ok(Some(r.val))
  ELSE Ok(None)

RadioErp1_decode(frame, overflow_checks) ==
  LET data == frame.data
      opt == frame.optional_data
      payload_len == decode_payload_len(data, overflow_checks)
  IN
  IF payload_len.kind # "Ok" THEN payload_len ELSE
  LET n == payload_len.val
      choice == decode_choice(data)
      user_data == decode_user_data(data, n)
      sender_id == decode_sender_id(data, n)
      status == decode_status(data, n)
      subtel_num == decode_subtel_num(opt)
      destination == decode_destination(opt)
      rssi == decode_rssi(opt)
      security == decode_security(opt)
  IN
  IF choice.kind # "Ok" THEN choice
  ELSE IF user_data.kind # "Ok" THEN user_data
  ELSE IF sender_id.kind # "Ok" THEN sender_id
  ELSE IF status.kind # "Ok" THEN status
  ELSE IF subtel_num.kind # "Ok" THEN subtel_num
  ELSE IF destination.kind # "Ok" THEN destination
  ELSE IF rssi.kind # "Ok" THEN rssi
  ELSE IF security.kind # "Ok" THEN security
  ELSE Ok([choice |-> choice.val,
           user_data |-> user_data.val,
           sender_id |-> sender_id.val,
           status |-> status.val,
           subtel_num |-> subtel_num.val,
           destination |-> destination.val,
           rssi |-> rssi.val,
           security |-> security.val])

(***************************************************************************)
(* Response::decode                                                        *)
(***************************************************************************)
\* mutant: the code byte left in the payload
Response_decode_keeps_code(frame) ==
  IF Len(frame.data) = 0 THEN Panic("index out of bounds")
  ELSE LET code == ReturnCode_try_from_primitive(frame.data[1]) IN
       IF code.kind = "Err" THEN Err(InvalidResultCode(frame.data[1]))
       ELSE Ok([code |-> code.val, data |-> frame.data])

Response_decode(frame) ==
  IF Len(frame.data) = 0 THEN Panic("index out of bounds")
  ELSE LET code == ReturnCode_try_from_primitive(frame.data[1]) IN
       IF code.kind = "Err" THEN Err(InvalidResultCode(frame.data[1]))
       ELSE Ok([code |-> code.val,
                data |-> Slice(frame.data, 1, Len(frame.data))])

(***************************************************************************)
(* CommonCommand                                                           *)
(***************************************************************************)
ReadVersion == [variant |-> "ReadVersion"]
UnknownCommand(code, data, optional) ==
  [variant |-> "Unknown", code |-> code, data |-> data, optional |-> optional]

\* mutant: the code appended after the data
CommonCommand_assemble_code_last(code, data, optional) ==
  ESP3Frame_assemble(5, data \o <<code>>, optional)

CommonCommand_assemble(code, data, optional) ==
  LET packet_type == 5
      frame_data == <<code>> \o data
  IN ESP3Frame_assemble(packet_type, frame_data, optional)

CommonCommand_encode(self) ==
  CASE self.variant = "Unknown" ->
         Ok(CommonCommand_assemble(self.code, self.data, self.optional))
    [] self.variant = "ReadVersion" ->
         Ok(CommonCommand_assemble(3, <<>>, <<>>))

(***************************************************************************)
(* Packet                                                                  *)
(***************************************************************************)
PacketRadioErp1(erp) == [variant |-> "RadioErp1", erp |-> erp]
PacketResponse(resp) == [variant |-> "Response", resp |-> resp]
PacketCommonCommand(cmd) == [variant |-> "CommonCommand", cmd |-> cmd]
PacketUnknown(packet_type, data, optional) ==
  [variant |-> "Unknown", packet_type |-> packet_type, data |-> data,
   optional |-> optional]

\* RadioErp1::encode and Response::encode are todo!()
RadioErp1_encode(self) == Panic("not yet implemented")
Response_encode(self) == Panic("not yet implemented")

\* mutant: the two segments of an Unknown packet exchanged
Packet_encode_swapped(self) ==
  CASE self.variant = "RadioErp1" -> RadioErp1_encode(self.erp)
    [] self.variant = "CommonCommand" -> CommonCommand_encode(self.cmd)
    [] self.variant = "Response" -> Response_encode(self.resp)
    [] self.variant = "Unknown" ->
         Ok(ESP3Frame_assemble(self.packet_type, self.optional, self.data))

Packet_encode(self) ==
  CASE self.variant = "RadioErp1" -> RadioErp1_encode(self.erp)
    [] self.variant = "CommonCommand" -> CommonCommand_encode(self.cmd)
    [] self.variant = "Response" -> Response_encode(self.resp)
    [] self.variant = "Unknown" ->
         Ok(ESP3Frame_assemble(self.packet_type, self.data, self.optional))

\* mutant: an unrecognised tag decoded into Unknown
Packet_decode_fallback(frame, overflow_checks) ==
  CASE frame.packet_type = 1 ->
         LET r == RadioErp1_decode(frame, overflow_checks) IN
         IF r.kind = "Ok" THEN Ok(PacketRadioErp1(r.val)) ELSE r
    [] frame.packet_type = 2 ->
         LET r == Response_decode(frame) IN
         IF r.kind = "Ok" THEN Ok(PacketResponse(r.val)) ELSE r
    [] OTHER ->
         Ok(PacketUnknown(frame.packet_type, frame.data, frame.optional_data))

Packet_decode(frame, overflow_checks) ==
  CASE frame.packet_type = 1 ->
         LET r == RadioErp1_decode(frame, overflow_checks) IN
         IF r.kind = "Ok" THEN Ok(PacketRadioErp1(r.val)) ELSE r
    [] frame.packet_type = 2 ->
         LET r == Response_decode(frame) IN
         IF r.kind = "Ok" THEN Ok(PacketResponse(r.val)) ELSE r
    [] OTHER -> Err(UnsupportedPacketType)

(***************************************************************************)
(* The frames and values the operations are applied to.                    *)
(***************************************************************************)
SeqsUpTo(S, n) == UNION {[1..k -> S] : k \in 0..n}

\* 0x00: a return code, SubtelNum::Receive, Security::None, no telegram type
\* 0xF6: a telegram type (RPS), no return code
\* 0xFE: in none of the enumerated sets
DataBytes == {0, 246, 254}
\* 0x04: Security::AuthAndDecrypted, no SubtelNum
OptBytes == {0, 4, 254}
\* 'G', a NUL, and the two bytes of U+00E9 (each invalid on its own)
DescBytes == {0, 71, 195, 169}
PacketTypes == {0, 1, 2, 3, 5, 127, 255}

FullOptional == <<3, 255, 255, 255, 255, 45, 0>>
Telegram == <<246, 16, 1, 2, 3, 4, 48>>
VersionHeader == <<1, 0, 0, 1, 2, 0, 1, 0, 170, 187, 204, 221, 0, 0, 0, 1>>

\* a 16-byte description field: a head followed by one repeated byte
Description(head, fill) ==
  [i \in 1..16 |-> IF i <= Len(head) THEN head[i] ELSE fill]

Descriptions ==
  {Description(h, f) : h \in SeqsUpTo(DescBytes, MaxHead), f \in {0, 87}}
    \cup {Description(<<71, 87>>, 0)}

Frame(packet_type, data, optional_data) ==
  [packet_type |-> packet_type, data |-> data, optional_data |-> optional_data]

DataFrames ==
  {Frame(t, d, o) : t \in {1, 2}, d \in SeqsUpTo(DataBytes, MaxData),
                    o \in {<<>>, FullOptional}}
    \cup {Frame(127, d, <<>>) : d \in SeqsUpTo(DataBytes, MaxData)}

OptFrames ==
  {Frame(t, d, o) : t \in {1, 5}, d \in {Telegram, SubSeq(Telegram, 2, 7)},
                    o \in SeqsUpTo(OptBytes, MaxOpt)}

TagFrames ==
  {Frame(t, d, o) : t \in PacketTypes,
                    d \in {<<>>, <<0>>, <<254, 1>>, Telegram},
                    o \in {<<>>, <<3>>, FullOptional}}

VersionFrames ==
  {Frame(2, <<c>> \o VersionHeader \o d, <<>>) :
     c \in {0, 254}, d \in Descriptions}
    \cup {Frame(2, <<0>> \o VersionHeader \o SubSeq(d, 1, 15), <<>>) :
            d \in Descriptions}
    \cup {Frame(2, <<0>> \o VersionHeader \o d \o <<0>>, <<>>) :
            d \in Descriptions}

Frames == DataFrames \cup OptFrames \cup TagFrames \cup VersionFrames

\* the packets a caller can build from the parts of a frame
CallerCommands(f) ==
  {ReadVersion, UnknownCommand(f.packet_type, f.data, f.optional_data)}

CallerPackets(f) ==
  {PacketUnknown(f.packet_type, f.data, f.optional_data)}
    \cup {PacketCommonCommand(c) : c \in CallerCommands(f)}

NoPacket == [variant |-> "NoPacket"]
NoCommand == [variant |-> "NoCommand"]
NoResponse == [none |-> TRUE]

(***************************************************************************)
(* State machine: one call per step, on the frame the transport handed in  *)
(* or on the value a previous call returned.                               *)
(***************************************************************************)
VARIABLES frame, pc, result, response, packet, command

vars == <<frame, pc, result, response, packet, command>>

Init ==
  /\ frame \in Frames
  /\ pc = "idle"
  /\ result = NoResult
  /\ response = NoResponse
  /\ packet = NoPacket
  /\ command = NoCommand

RadioErp1Decode ==
  /\ pc = "idle"
  /\ \E overflow_checks \in BOOLEAN :
       result' = RadioErp1_decode(frame, overflow_checks)
  /\ pc' = "RadioErp1::decode"
  /\ UNCHANGED <<frame, response, packet, command>>

ResponseDecode ==
  /\ pc = "idle"
  /\ result' = Response_decode(frame)
  /\ response' = IF result'.kind = "Ok" THEN result'.val ELSE response
  /\ pc' = "Response::decode"
  /\ UNCHANGED <<frame, packet, command>>

VersionResponseDecode ==
  /\ pc = "Response::decode"
  /\ result.kind = "Ok"
  /\ result' = VersionResponse_decode(response)
  /\ pc' = "VersionResponse::decode"
  /\ UNCHANGED <<frame, response, packet, command>>

PacketDecode ==
  /\ pc = "idle"
  /\ \E overflow_checks \in BOOLEAN :
       result' = Packet_decode(frame, overflow_checks)
  /\ packet' = IF result'.kind = "Ok" THEN result'.val ELSE packet
  /\ pc' = "Packet::decode"
  /\ UNCHANGED <<frame, response, command>>

\* encode of the packet a decode returned
PacketEncodeDecoded ==
  /\ pc = "Packet::decode"
  /\ result.kind = "Ok"
  /\ result' = Packet_encode(packet)
  /\ pc' = "Packet::encode"
  /\ UNCHANGED <<frame, response, packet, command>>

\* encode of a packet the caller built
PacketEncode ==
  /\ pc = "idle"
  /\ \E p \in CallerPackets(frame) :
       /\ packet' = p
       /\ result' = Packet_encode(p)
  /\ pc' = "Packet::encode"
  /\ UNCHANGED <<frame, response, command>>

CommonCommandEncode ==
  /\ pc = "idle"
  /\ \E c \in CallerCommands(frame) :
       /\ command' = c
       /\ result' = CommonCommand_encode(c)
  /\ pc' = "CommonCommand::encode"
  /\ UNCHANGED <<frame, response, packet>>

Next ==
  \/ RadioErp1Decode
  \/ ResponseDecode
  \/ VersionResponseDecode
  \/ PacketDecode
  \/ PacketEncodeDecoded
  \/ PacketEncode
  \/ CommonCommandEncode

Spec == Init /\ [][Next]_vars

(***************************************************************************)
(* Properties.                                                             *)
(***************************************************************************)
RadioDone == pc = "RadioErp1::decode"
RadioOk == RadioDone /\ result.kind = "Ok"

\* C1: for every frame whose data segment has length 0..5, RadioErp1::decode
\* returns the error PacketTooShort (no panic, no underflow, no out-of-range
\* read).
C1_ShortDataIsPacketTooShort ==
  (RadioDone /\ Len(frame.data) <= 5) => result = Err(PacketTooShort)

\* C2: for every frame whose data segment is empty, Response::decode returns
\* the error PacketTooShort as a value, not a failed access of data[0].
C2_EmptyResponseIsPacketTooShort ==
  (pc = "Response::decode" /\ Len(frame.data) = 0)
    => result = Err(PacketTooShort)

\* the bytes of s before its first NUL, all of s when it has none
BeforeFirstNul(s) ==
  LET nuls == {i \in 1..Len(s) : s[i] = 0}
      first == IF nuls = {} THEN Len(s) + 1
               ELSE CHOOSE i \in nuls : \A j \in nuls : i <= j
  IN SubSeq(s, 1, first - 1)

\* C3: for every Response with exactly 32 data bytes, VersionResponse::decode
\* sets description to the bytes of data[16..32] before the first NUL (all 16
\* when there is none), and fails with the text-decode error exactly when
\* those bytes are not valid text.
C3_DescriptionIsTextBeforeNul ==
  (pc = "VersionResponse::decode" /\ Len(response.data) = 32)
    => LET text == BeforeFirstNul(SubSeq(response.data, 17, 32)) IN
       IF utf8_valid_from(text, 1)
       THEN result.kind = "Ok" /\ result.val.description = text
       ELSE result = Err(UTF8)

\* C4 as stated: for any frame whose tag is neither 0x01 nor 0x02,
\* Packet::decode yields Packet::Unknown holding the tag, data and optional,
\* and Packet::encode of it reproduces the frame.
C4_DecodeGivesUnknown ==
  (pc = "Packet::decode" /\ frame.packet_type \notin {1, 2})
    => /\ result.kind = "Ok"
       /\ result.val.variant = "Unknown"
       /\ Packet_encode(result.val) = Ok(frame)

\* C4 as amended: for any frame whose tag is neither 0x01 nor 0x02,
\* Packet::decode yields the error UnsupportedPacketType, and Packet::encode
\* of a Packet::Unknown built from that tag, data and optional reproduces
\* exactly the original tag, data segment and optional segment.
C4_UnknownEncodeReproducesFrame ==
  /\ (pc = "Packet::decode" /\ frame.packet_type \notin {1, 2})
       => result = Err(UnsupportedPacketType)
  /\ (/\ pc = "Packet::encode"
      /\ frame.packet_type \notin {1, 2}
      /\ packet.variant = "Unknown")
       => /\ packet.packet_type = frame.packet_type
          /\ packet.data = frame.data
          /\ packet.optional = frame.optional_data
          /\ result.kind = "Ok"
          /\ result.val.packet_type = frame.packet_type
          /\ result.val.data = frame.data
          /\ result.val.optional_data = frame.optional_data

C4_Witness ==
  /\ pc = "Packet::encode"
  /\ frame.packet_type = 127
  /\ packet.variant = "Unknown"
  /\ Len(frame.data) = MaxData
  /\ result.kind = "Ok"

Wrapped(r, variant) ==
  IF r.kind # "Ok" THEN r
  ELSE IF variant = "RadioErp1" THEN Ok(PacketRadioErp1(r.val))
  ELSE Ok(PacketResponse(r.val))

\* C5: Packet::decode dispatches on frame.packet_type only: 0x01 gives the
\* result of RadioErp1::decode wrapped in Packet::RadioErp1, 0x02 the result
\* of Response::decode wrapped in Packet::Response, every other tag the error
\* UnsupportedPacketType; a successful decode is never Unknown or
\* CommonCommand.
C5_DispatchOnPacketType ==
  pc = "Packet::decode" =>
    /\ frame.packet_type = 1 =>
         \E oc \in BOOLEAN :
           result = Wrapped(RadioErp1_decode(frame, oc), "RadioErp1")
    /\ frame.packet_type = 2 =>
         result = Wrapped(Response_decode(frame), "Response")
    /\ frame.packet_type \notin {1, 2} => result = Err(UnsupportedPacketType)
    /\ result.kind = "Ok" => result.val.variant \in {"RadioErp1", "Response"}

C5_Witness ==
  /\ pc = "Packet::decode"
  /\ frame.packet_type = 5
  /\ Len(frame.data) = 7
  /\ Len(frame.optional_data) = 7
  /\ result = Err(UnsupportedPacketType)

\* C6: for every successful RadioErp1::decode with optional length n,
\* subtel_num is present iff n >= 1 (optional byte 0), destination iff n >= 5
\* (bytes 1..5), rssi iff n >= 6 (byte 5), security iff n >= 7 (byte 6); a
\* short optional segment is never by itself an error.
C6_OptionalFieldThresholds ==
  LET opt == frame.optional_data
      n == Len(opt)
  IN
  /\ RadioOk =>
       /\ result.val.subtel_num.some <=> n >= 1
       /\ n >= 1 => SubtelNum_into(result.val.subtel_num.v) = opt[1]
       /\ result.val.destination.some <=> n >= 5
       /\ n >= 5 => result.val.destination.v = Address(SubSeq(opt, 2, 5))
       /\ result.val.rssi.some <=> n >= 6
       /\ n >= 6 => result.val.rssi.v = opt[6]
       /\ result.val.security.some <=> n >= 7
       /\ n >= 7 => Security_into(result.val.security.v) = opt[7]
  /\ (/\ RadioDone
      /\ Len(frame.data) >= 6
      /\ frame.data[1] \in RorgCodes
      /\ n < 7
      /\ n >= 1 => opt[1] \in {0, 3})
       => result.kind = "Ok"

C6_Witness ==
  /\ RadioOk
  /\ Len(frame.optional_data) = 5
  /\ result.val.subtel_num.some
  /\ result.val.destination.some
  /\ ~result.val.rssi.some
  /\ ~result.val.security.some

\* C7: for every frame with data length L >= 6 that RadioErp1::decode
\* accepts, choice is the telegram type of data[0], user_data is data[1..L-5],
\* sender_id is data[L-5..L-1], status is data[L-1]; the fields partition the
\* data segment.
C7_DataLayout ==
  LET data == frame.data
      L == Len(data)
  IN (RadioOk /\ L >= 6) =>
       /\ result.val.choice = [rorg |-> data[1]]
       /\ result.val.user_data = SubSeq(data, 2, L - 5)
       /\ Len(result.val.user_data) = L - 6
       /\ result.val.sender_id = Address(SubSeq(data, L - 4, L - 1))
       /\ result.val.status = data[L]
       /\ <<data[1]>> \o result.val.user_data
            \o result.val.sender_id.address \o <<result.val.status>> = data

C7_Witness ==
  /\ RadioOk
  /\ Len(frame.data) = 7
  /\ result.val.user_data = <<254>>
  /\ result.val.sender_id = Address(<<0, 246, 254, 0>>)
  /\ result.val.status = 246

\* C8: for every frame with non-empty data, Response::decode is decided by
\* data[0] alone: a return code gives Ok with that code and the payload
\* data[1..]; any other byte b gives InvalidResultCode(b).
C8_ResponseByFirstByte ==
  (pc = "Response::decode" /\ Len(frame.data) >= 1) =>
    IF frame.data[1] \in ReturnCodes
    THEN /\ result.kind = "Ok"
         /\ result.val.code = [return_code |-> frame.data[1]]
         /\ result.val.data = Tail(frame.data)
         /\ Len(result.val.data) = Len(frame.data) - 1
    ELSE result = Err(InvalidResultCode(frame.data[1]))

C8_Witness ==
  /\ pc = "Response::decode"
  /\ frame.data = <<0>>
  /\ frame.optional_data # <<>>
  /\ result.kind = "Ok"
  /\ result.val.data = <<>>

\* the frame C9 expects of a command
ExpectedCommandFrame(c, r) ==
  /\ r.kind = "Ok"
  /\ r.val.packet_type = 5
  /\ IF c.variant = "ReadVersion"
     THEN r.val.data = <<3>> /\ r.val.optional_data = <<>>
     ELSE /\ r.val.data = <<c.code>> \o c.data
          /\ Len(r.val.data) = Len(c.data) + 1
          /\ r.val.optional_data = c.optional

\* C9: encoding any CommonCommand, directly or through Packet::encode, yields
\* a frame of packet type 0x05: ReadVersion gives data [0x03] and no optional;
\* Unknown{code, data, optional} gives code followed by data, and optional
\* unchanged.
C9_CommonCommandFrame ==
  /\ pc = "CommonCommand::encode" => ExpectedCommandFrame(command, result)
  /\ (pc = "Packet::encode" /\ packet.variant = "CommonCommand")
       => ExpectedCommandFrame(packet.cmd, result)

C9_Witness ==
  /\ pc = "Packet::encode"
  /\ packet.variant = "CommonCommand"
  /\ packet.cmd.variant = "Unknown"
  /\ Len(packet.cmd.data) = 7
  /\ Len(packet.cmd.optional) = 7
  /\ result.kind = "Ok"

\* C10 as stated: for data length >= 6, data[0] outside the telegram-type set
\* gives UnsupportedPacketType; optional byte 0 not in {0, 3} gives
\* InvalidPrimitive; optional byte 6 not in 0..4 gives InvalidPrimitive; on
\* success each present enumerated field is the variant of its input byte.
C10_EachBadByteHasItsError ==
  LET data == frame.data
      opt == frame.optional_data
  IN (RadioDone /\ Len(data) >= 6) =>
       /\ data[1] \notin RorgCodes => result = Err(UnsupportedPacketType)
       /\ (Len(opt) >= 1 /\ opt[1] \notin {0, 3})
            => result = Err(InvalidPrimitive)
       /\ (Len(opt) >= 7 /\ opt[7] \notin 0..4)
            => result = Err(InvalidPrimitive)
       /\ result.kind = "Ok" =>
            /\ result.val.choice = [rorg |-> data[1]]
            /\ Len(opt) >= 1 =>
                 SubtelNum_into(result.val.subtel_num.v) = opt[1]
            /\ Len(opt) >= 7 =>
                 Security_into(result.val.security.v) = opt[7]

\* C10 as amended: the checks are made in order.  For data length >= 6,
\* data[0] outside the telegram-type set gives UnsupportedPacketType;
\* otherwise optional byte 0 not in {0, 3} gives InvalidPrimitive; otherwise
\* optional byte 6 not in 0..4 gives InvalidPrimitive; on success each present
\* enumerated field is the variant of its input byte.
C10_BadByteErrorsInOrder ==
  LET data == frame.data
      opt == frame.optional_data
  IN (RadioDone /\ Len(data) >= 6) =>
       /\ data[1] \notin RorgCodes => result = Err(UnsupportedPacketType)
       /\ (/\ data[1] \in RorgCodes
           /\ Len(opt) >= 1
           /\ opt[1] \notin {0, 3})
            => result = Err(InvalidPrimitive)
       /\ (/\ data[1] \in RorgCodes
           /\ Len(opt) >= 7
           /\ opt[7] \notin 0..4)
            => result = Err(InvalidPrimitive)
       /\ result.kind = "Ok" =>
            /\ result.val.choice = [rorg |-> data[1]]
            /\ Len(opt) >= 1 =>
                 SubtelNum_into(result.val.subtel_num.v) = opt[1]
            /\ Len(opt) >= 7 =>
                 Security_into(result.val.security.v) = opt[7]

C10_Witness ==
  /\ RadioDone
  /\ Len(frame.data) >= 6
  /\ frame.data[1] \in RorgCodes
  /\ Len(frame.optional_data) = 7
  /\ frame.optional_data[1] = 0
  /\ frame.optional_data[7] = 254
  /\ result = Err(InvalidPrimitive)

====
